---- MODULE Spec2Model ----
(***************************************************************************)
(* Model of app.py, the Streamlit dashboard over the ENG vs IND ball-by-   *)
(* ball table: load_data, filter_data, display_metrics and the script body *)
(* main, which Streamlit re-runs on every widget interaction.              *)
(*                                                                         *)
(* A DataFrame is a sequence of rows (records).  A cell is a sequence of   *)
(* length at most one: <<>> is pandas' missing value (NaN), <<v>> is the   *)
(* value v.  The text of a runs cell is a sequence of characters, so that  *)
(* pd.to_numeric is modelled by parsing it.                                *)
(***************************************************************************)
EXTENDS Integers, Sequences, FiniteSets, TLC

VARIABLES csv, cache, df, widgets, calls, filtered_df, metrics,
          runs_per_over, top_runs, top_wickets, status

vars == <<csv, cache, df, widgets, calls, filtered_df, metrics,
          runs_per_over, top_runs, top_wickets, status>>

\* pandas' missing value (NaN / None) of a cell.
NA == <<>>

Range(s) == {s[i] : i \in 1..Len(s)}

Min2(a, b) == IF a <= b THEN a ELSE b

(***************************************************************************)
(* load_data                                                               *)
(***************************************************************************)

Digits == {"0", "1", "2", "3", "4", "5", "6", "7", "8", "9"}

DigitVal(c) ==
    CASE c = "0" -> 0 [] c = "1" -> 1 [] c = "2" -> 2 [] c = "3" -> 3
      [] c = "4" -> 4 [] c = "5" -> 5 [] c = "6" -> 6 [] c = "7" -> 7
      [] c = "8" -> 8 [] c = "9" -> 9

RECURSIVE DecimalVal(_)
DecimalVal(t) ==
    IF t = <<>> THEN 0
    ELSE 10 * DecimalVal(SubSeq(t, 1, Len(t) - 1)) + DigitVal(t[Len(t)])

AllDigits(t) == t # <<>> /\ \A i \in 1..Len(t) : t[i] \in Digits

\* pd.to_numeric(..., errors='coerce') on one cell's text: the integer the
\* text spells (an optional sign, then digits), NaN for anything else.
to_numeric(t) ==
    IF AllDigits(t) THEN <<DecimalVal(t)>>
    ELSE IF t # <<>> /\ t[1] = "-" /\ AllDigits(Tail(t))
         THEN <<0 - DecimalVal(Tail(t))>>
    ELSE NA

\* .fillna(0)
fillna(c, v) == IF c = NA THEN v ELSE c[1]

\* The mutant of not_out_values: the 'Null' marker left out of the set.
not_out_values_no_null ==
    {"NotOut", "NotOut1stUmpire", "NotOut2ndUmpire", "NotOut3rdUmpire"}

not_out_values ==
    {"NotOut", "NotOut1stUmpire", "NotOut2ndUmpire", "NotOut3rdUmpire", "Null"}

flag_wicket(val) ==
    IF val = NA THEN 0
    ELSE IF val[1] \in not_out_values THEN 0 ELSE 1

\* One row after load_data: runsScored coerced from the column the code
\* reads, is_wicket added; every other column is carried over unchanged.
LoadRow(r, runsText) ==
    [inningNumber  |-> r.inningNumber,
     overNumber    |-> r.overNumber,
     battingPlayer |-> r.battingPlayer,
     bowlerPlayer  |-> r.bowlerPlayer,
     appealDismissalTypeId |-> r.appealDismissalTypeId,
     runsScored    |-> fillna(to_numeric(runsText), 0),
     is_wicket     |-> flag_wicket(r.appealDismissalTypeId)]

\* load_data on the table read_csv returned.  With neither a runsScored nor
\* a runs column, df.get('runs', 0) is the scalar 0, pd.to_numeric(0) is the
\* scalar 0, and 0.fillna raises AttributeError: the load fails.
load_data(table) ==
    IF table.hasRunsScored
    THEN [ok |-> TRUE,
          df |-> [i \in 1..Len(table.rows) |->
                    LoadRow(table.rows[i], table.rows[i].runsScored)]]
    ELSE IF table.hasRuns
    THEN [ok |-> TRUE,
          df |-> [i \in 1..Len(table.rows) |->
                    LoadRow(table.rows[i], table.rows[i].runs)]]
    ELSE [ok |-> FALSE, df |-> <<>>]

\* @st.cache_data: the first call computes and stores, later calls return
\* the stored frame.  A raised exception stores nothing.
load_data_cached(c, table) ==
    IF c # <<>> THEN [ok |-> TRUE, df |-> c[1]] ELSE load_data(table)

(***************************************************************************)
(* filter_data                                                             *)
(***************************************************************************)

\* Series.isin(values): membership; NaN matches a NaN among the values.
isin(cell, values) == cell \in values

\* The mutant of in_over_range: the two comparisons joined by | instead of &.
in_over_range_either(cell, over_range) ==
    cell # NA /\ (cell[1] >= over_range[1] \/ cell[1] <= over_range[2])

\* (overNumber >= min_over) & (overNumber <= max_over); NaN compares False.
in_over_range(cell, over_range) ==
    cell # NA /\ cell[1] >= over_range[1] /\ cell[1] <= over_range[2]

\* The mutant of filter_data: the over-range filter sits in the else branch
\* of the batting-player test, so it is skipped when players are selected.
filter_data_range_in_else(frame, innings, batting_players, bowlers, over_range) ==
    LET ByInnings(r) == isin(r.inningNumber, innings)
        ByBatting(r) == isin(r.battingPlayer, batting_players)
        ByBowler(r)  == isin(r.bowlerPlayer, bowlers)
        ByOver(r)    == in_over_range(r.overNumber, over_range)
        f1 == SelectSeq(frame, ByInnings)
        f2 == IF bowlers # {} THEN SelectSeq(f1, ByBowler) ELSE f1
    IN  IF batting_players # {} THEN SelectSeq(f2, ByBatting)
        ELSE SelectSeq(f2, ByOver)

\* The mutant of filter_data: the bowler filter is never applied.
filter_data_no_bowlers(frame, innings, batting_players, bowlers, over_range) ==
    LET ByInnings(r) == isin(r.inningNumber, innings)
        ByBatting(r) == isin(r.battingPlayer, batting_players)
        ByOver(r)    == in_over_range(r.overNumber, over_range)
        f1 == SelectSeq(frame, ByInnings)
        f2 == IF batting_players # {} THEN SelectSeq(f1, ByBatting) ELSE f1
    IN  SelectSeq(f2, ByOver)

\* The mutant of filter_data: the upper bound of the over range is exclusive.
filter_data_open_hi(frame, innings, batting_players, bowlers, over_range) ==
    LET ByInnings(r) == isin(r.inningNumber, innings)
        ByBatting(r) == isin(r.battingPlayer, batting_players)
        ByBowler(r)  == isin(r.bowlerPlayer, bowlers)
        ByOver(r)    == /\ r.overNumber # NA
                        /\ r.overNumber[1] >= over_range[1]
                        /\ r.overNumber[1] < over_range[2]
        f1 == SelectSeq(frame, ByInnings)
        f2 == IF batting_players # {} THEN SelectSeq(f1, ByBatting) ELSE f1
        f3 == IF bowlers # {} THEN SelectSeq(f2, ByBowler) ELSE f2
    IN  SelectSeq(f3, ByOver)

\* The mutant of filter_data: missing player names are filled in on the
\* filtered frame (a fillna on the view).
filter_data_fills_names(frame, innings, batting_players, bowlers, over_range) ==
    LET ByInnings(r) == isin(r.inningNumber, innings)
        ByBatting(r) == isin(r.battingPlayer, batting_players)
        ByBowler(r)  == isin(r.bowlerPlayer, bowlers)
        ByOver(r)    == in_over_range(r.overNumber, over_range)
        f1 == SelectSeq(frame, ByInnings)
        f2 == IF batting_players # {} THEN SelectSeq(f1, ByBatting) ELSE f1
        f3 == IF bowlers # {} THEN SelectSeq(f2, ByBowler) ELSE f2
        f4 == SelectSeq(f3, ByOver)
    IN  [i \in 1..Len(f4) |->
            [f4[i] EXCEPT !.battingPlayer =
                IF @ = NA THEN <<"Unknown">> ELSE @]]

filter_data(frame, innings, batting_players, bowlers, over_range) ==
    LET ByInnings(r) == isin(r.inningNumber, innings)
        ByBatting(r) == isin(r.battingPlayer, batting_players)
        ByBowler(r)  == isin(r.bowlerPlayer, bowlers)
        ByOver(r)    == in_over_range(r.overNumber, over_range)
        f1 == SelectSeq(frame, ByInnings)
        f2 == IF batting_players # {} THEN SelectSeq(f1, ByBatting) ELSE f1
        f3 == IF bowlers # {} THEN SelectSeq(f2, ByBowler) ELSE f2
    IN  SelectSeq(f3, ByOver)

\* filter_data called with one configuration record.
Filter(frame, a) ==
    filter_data(frame, a.innings, a.batting_players, a.bowlers, a.over_range)

(***************************************************************************)
(* display_metrics and the grouped aggregations of main                    *)
(***************************************************************************)

RECURSIVE SumCol(_, _)
\* Series.sum() of one numeric column (0 on an empty frame).
SumCol(frame, col) ==
    IF frame = <<>> THEN 0 ELSE frame[1][col] + SumCol(Tail(frame), col)

RECURSIVE CountEq(_, _, _)
\* (Series == v).sum()
CountEq(frame, col, v) ==
    IF frame = <<>> THEN 0
    ELSE (IF frame[1][col] = v THEN 1 ELSE 0) + CountEq(Tail(frame), col, v)

display_metrics(frame) ==
    [total_runs    |-> SumCol(frame, "runsScored"),
     total_wickets |-> SumCol(frame, "is_wicket"),
     boundaries    |-> CountEq(frame, "runsScored", 4),
     sixes         |-> CountEq(frame, "runsScored", 6)]

\* DataFrame.groupby(key)[val].sum(): one <<key, total>> per distinct key.
\* groupby's default dropna=True leaves the rows with a missing key out.
groupby_sum(frame, key, val) ==
    LET keys == {frame[i][key] : i \in 1..Len(frame)} \ {NA}
        OfKey(k) == LET Is(r) == r[key] = k IN SelectSeq(frame, Is)
    IN  {<<k, SumCol(OfKey(k), val)>> : k \in keys}

RECURSIVE SortByKey(_)
\* groupby's sort=True on the integer over numbers: ascending by key.
SortByKey(groups) ==
    IF groups = {} THEN <<>>
    ELSE LET g == CHOOSE x \in groups : \A y \in groups : x[1][1] <= y[1][1]
         IN  <<g>> \o SortByKey(groups \ {g})

RECURSIVE sort_values_descending(_)
\* Series.sort_values(ascending=False): every order of the groups in which
\* the totals never increase.  The default sort is not stable, so the order
\* of equal totals is any.
sort_values_descending(groups) ==
    IF groups = {} THEN {<<>>}
    ELSE UNION {{<<g>> \o s : s \in sort_values_descending(groups \ {g})} :
                  g \in {x \in groups : \A y \in groups : y[2] <= x[2]}}

\* The number of rows .head(10) keeps.
TopN == 10

\* The mutant of head: one row too many (an off-by-one in the cut).
head_one_more(s, n) == SubSeq(s, 1, Min2(n + 1, Len(s)))

head(s, n) == SubSeq(s, 1, Min2(n, Len(s)))

\* The outcomes of groupby(key)[val].sum().sort_values(ascending=False).head(10)
top_table(frame, key, val) ==
    {head(s, TopN) : s \in sort_values_descending(groupby_sum(frame, key, val))}

(***************************************************************************)
(* main: the sidebar widgets                                               *)
(***************************************************************************)

\* sorted(df['inningNumber'].unique()): unique() keeps NaN.
innings_options(frame) == {frame[i].inningNumber : i \in 1..Len(frame)}

\* sorted(df['battingPlayer'].dropna().unique())
batting_players_options(frame) ==
    {frame[i].battingPlayer : i \in 1..Len(frame)} \ {NA}

\* sorted(df['bowlerPlayer'].dropna().unique())
bowler_options(frame) ==
    {frame[i].bowlerPlayer : i \in 1..Len(frame)} \ {NA}

OverNumbers(frame) ==
    {frame[i].overNumber[1] : i \in {j \in 1..Len(frame) : frame[j].overNumber # NA}}

\* int(df['overNumber'].min()) raises ValueError when min() is NaN: no row
\* has an over number.
HasOverExtent(frame) == OverNumbers(frame) # {}

min_over_num(frame) ==
    CHOOSE x \in OverNumbers(frame) : \A y \in OverNumbers(frame) : x <= y

max_over_num(frame) ==
    CHOOSE x \in OverNumbers(frame) : \A y \in OverNumbers(frame) : y <= x

\* The widget values of a fresh session: all innings, no player, no bowler,
\* the whole over range.
DefaultWidgets(frame) ==
    [innings         |-> innings_options(frame),
     batting_players |-> {},
     bowlers         |-> {},
     over_range      |-> IF HasOverExtent(frame)
                         THEN <<min_over_num(frame), max_over_num(frame)>>
                         ELSE <<>>]

NoWidgets ==
    [innings |-> {}, batting_players |-> {}, bowlers |-> {}, over_range |-> <<>>]

NoMetrics == [total_runs |-> 0, total_wickets |-> 0, boundaries |-> 0, sixes |-> 0]

\* The arguments main passes to filter_data.
MainArgs(frame, w) ==
    [innings         |-> IF w.innings # {} THEN w.innings ELSE innings_options(frame),
     batting_players |-> w.batting_players,
     bowlers         |-> w.bowlers,
     over_range      |-> w.over_range]

(***************************************************************************)
(* The tables the model reads                                              *)
(***************************************************************************)

\* The most rows of a table of the general families below.
MaxRows == 2

\* The number of batting players (and bowlers) of a table of the top-ten
\* family: one more than the cut, so that the cut drops a group.
TopGroups == 11

RawRow(inn, ov, bat, bowl, dis, rs, r) ==
    [inningNumber  |-> inn,
     overNumber    |-> ov,
     battingPlayer |-> bat,
     bowlerPlayer  |-> bowl,
     appealDismissalTypeId |-> dis,
     runsScored    |-> rs,
     runs          |-> r]

Tables(rows, n) == UNION {[1..k -> rows] : k \in 0..n}

\* Deliveries that differ in the columns the filters read, in whether the
\* innings, the over and the names are there, and in runs and dismissal.
SessionRows ==
    {RawRow(<<1>>, <<1>>, <<"Root">>, <<"Bumrah">>, <<"NotOut">>, <<"4">>, <<>>),
     RawRow(<<1>>, <<2>>, <<"Root">>, <<"Bumrah">>, <<"Bowled">>, <<"6">>, <<>>),
     RawRow(<<1>>, <<2>>, <<"Pant">>, <<"Woakes">>, <<"Caught">>, <<"x">>, <<>>),
     RawRow(<<2>>, <<2>>, <<"Pant">>, <<"Bumrah">>, <<"NotOut">>, <<"4">>, <<>>),
     RawRow(NA,    <<1>>, <<"Root">>, <<"Woakes">>, <<"NotOut">>, <<"1">>, <<>>),
     RawRow(<<1>>, NA,    <<"Root">>, <<"Bumrah">>, <<"NotOut">>, <<"4">>, <<>>),
     RawRow(<<1>>, <<1>>, NA,         <<"Bumrah">>, <<"NotOut">>, <<"6">>, <<>>),
     RawRow(<<1>>, <<1>>, <<"Root">>, NA,           <<"Bowled">>, <<"1">>, <<>>),
     RawRow(<<2>>, <<1>>, NA,         NA,           <<"Bowled">>, <<"4">>, <<>>),
     RawRow(NA,    NA,    NA,         NA,           NA,           <<>>,    <<>>)}

SessionTables ==
    {[hasRunsScored |-> TRUE, hasRuns |-> FALSE, rows |-> t] :
        t \in Tables(SessionRows, MaxRows)}

\* The texts of a runs cell: empty, numbers, and text that is no number.
RunsTexts ==
    {<<>>, <<"0">>, <<"4">>, <<"6">>, <<"1", "0">>, <<"-", "1">>,
     <<"x">>, <<"4", "x">>, <<"-">>}

\* Dismissal codes: missing, the not-out family, dismissals, and codes the
\* data never had.
DismissalCodes ==
    {NA, <<"NotOut">>, <<"NotOut1stUmpire">>, <<"NotOut2ndUmpire">>,
     <<"NotOut3rdUmpire">>, <<"Null">>, <<"Bowled">>, <<"Caught">>,
     <<"notout">>, <<"Zzz">>}

\* The (runs text, dismissal code) pairs of the load family.
LoadCells ==
    {<<t, <<"Bowled">> >> : t \in RunsTexts} \cup
    {<< <<"4">>, d>> : d \in DismissalCodes}

\* Which of the columns runsScored and runs the file has.
Shapes == {<<TRUE, FALSE>>, <<TRUE, TRUE>>, <<FALSE, TRUE>>, <<FALSE, FALSE>>}

\* A row of a file of shape sh: the varied text sits in the column the
\* code reads, an absent column holds nothing.
LoadRawRow(c, sh) ==
    RawRow(<<1>>, <<1>>, <<"Root">>, <<"Bumrah">>, c[2],
           IF sh[1] THEN c[1] ELSE <<>>,
           IF sh[2] THEN (IF sh[1] THEN <<"1">> ELSE c[1]) ELSE <<>>)

LoadTables ==
    {[hasRunsScored |-> sh[1], hasRuns |-> sh[2],
      rows |-> [i \in 1..Len(t) |-> LoadRawRow(t[i], sh)]] :
        sh \in Shapes, t \in Tables(LoadCells, MaxRows)}

Names ==
    <<"Anderson", "Bairstow", "Crawley", "Duckett", "Gill", "Jadeja",
      "Jaiswal", "Pant", "Pope", "Rahul", "Root", "Siraj", "Stokes", "Woakes">>

DigitText == <<"1", "2", "3", "4", "5", "6", "7", "8", "9">>

\* The decimal text of 0..99.
Text(n) ==
    IF n = 0 THEN <<"0">>
    ELSE IF n < 10 THEN <<DigitText[n]>>
    ELSE <<DigitText[n \div 10]>> \o
         (IF n % 10 = 0 THEN <<"0">> ELSE <<DigitText[n % 10]>>)

\* The k-th of the i deliveries of player i (who is also bowler i, in the
\* other side's innings): the first scores runs, the others are dots, every
\* one is a dismissal unless it is marked not out.
TopRow(i, k, runsOfFirst, notOut, noName) ==
    RawRow(<<1 + (i % 2)>>, <<1>>,
           IF noName = i /\ k = 1 THEN NA ELSE <<Names[i]>>,
           <<Names[i]>>,
           IF notOut = i /\ k = 1 THEN <<"NotOut">> ELSE <<"Bowled">>,
           IF k = 1 THEN Text(runsOfFirst) ELSE <<"0">>,
           <<>>)

RECURSIVE TopRows(_, _, _, _)
\* Player i has i deliveries and scores i runs; player `tie' scores one
\* more, as many as the next player.
TopRows(i, tie, notOut, noName) ==
    IF i = 0 THEN <<>>
    ELSE TopRows(i - 1, tie, notOut, noName) \o
         [k \in 1..i |->
            TopRow(i, k, IF i = tie THEN i + 1 ELSE i, notOut, noName)]

TopTables ==
    {[hasRunsScored |-> TRUE, hasRuns |-> FALSE,
      rows |-> TopRows(TopGroups, tie, notOut, noName)] :
        tie \in 0..(TopGroups - 1), notOut \in 0..TopGroups,
        noName \in {0, 1, TopGroups}}

(***************************************************************************)
(* The session: Streamlit runs main top to bottom, and again on every      *)
(* widget interaction                                                      *)
(***************************************************************************)

Cleared ==
    /\ calls' = <<>>
    /\ filtered_df' = <<>>
    /\ metrics' = NoMetrics
    /\ runs_per_over' = <<>>
    /\ top_runs' = <<>>
    /\ top_wickets' = <<>>

\* One run of main with the widgets holding w (w.over_range is what the
\* slider returns when it is reached).
RunScript(w) ==
    LET loaded == load_data_cached(cache, csv)
    IN  /\ csv' = csv
        /\ IF ~loaded.ok
           THEN \* load_data raised: nothing is cached, nothing is drawn
                /\ cache' = cache
                /\ df' = <<>>
                /\ widgets' = NoWidgets
                /\ Cleared
                /\ status' = "error"
           ELSE /\ cache' = <<loaded.df>>
                /\ df' = loaded.df
                /\ IF ~HasOverExtent(loaded.df)
                   THEN \* int(nan) raised before the slider
                        /\ widgets' = [w EXCEPT !.over_range = <<>>]
                        /\ Cleared
                        /\ status' = "error"
                   ELSE LET a == MainArgs(loaded.df, w)
                            f == Filter(loaded.df, a)
                        IN  /\ widgets' = w
                            /\ calls' = <<a>>
                            /\ filtered_df' = f
                            /\ metrics' = display_metrics(f)
                            /\ runs_per_over' =
                                 SortByKey(groupby_sum(f, "overNumber", "runsScored"))
                            /\ top_runs' \in
                                 top_table(f, "battingPlayer", "runsScored")
                            /\ top_wickets' \in
                                 top_table(f, "bowlerPlayer", "is_wicket")
                            /\ status' = "ok"

\* The first run of a session: the widgets take their defaults.
Run ==
    /\ status = "start"
    /\ RunScript(DefaultWidgets(load_data_cached(cache, csv).df))

\* The page is reloaded: a new session, the widgets back at their defaults,
\* the cached frame kept.
Refresh ==
    /\ status # "start"
    /\ RunScript(DefaultWidgets(load_data_cached(cache, csv).df))

SelectInnings ==
    /\ cache # <<>>
    /\ \E S \in SUBSET innings_options(df) :
          /\ S # widgets.innings
          /\ RunScript([widgets EXCEPT !.innings = S])

SelectBattingPlayers ==
    /\ cache # <<>>
    /\ \E S \in SUBSET batting_players_options(df) :
          /\ S # widgets.batting_players
          /\ RunScript([widgets EXCEPT !.batting_players = S])

SelectBowlers ==
    /\ cache # <<>>
    /\ \E S \in SUBSET bowler_options(df) :
          /\ S # widgets.bowlers
          /\ RunScript([widgets EXCEPT !.bowlers = S])

SlideOverRange ==
    /\ status = "ok"
    /\ \E lo \in min_over_num(df)..max_over_num(df) :
       \E hi \in lo..max_over_num(df) :
          /\ <<lo, hi>> # widgets.over_range
          /\ RunScript([widgets EXCEPT !.over_range = <<lo, hi>>])

InitWith(tables) ==
    /\ csv \in tables
    /\ cache = <<>>
    /\ df = <<>>
    /\ widgets = NoWidgets
    /\ calls = <<>>
    /\ filtered_df = <<>>
    /\ metrics = NoMetrics
    /\ runs_per_over = <<>>
    /\ top_runs = <<>>
    /\ top_wickets = <<>>
    /\ status = "start"

Init == InitWith(SessionTables)

Next ==
    \/ Run
    \/ Refresh
    \/ SelectInnings
    \/ SelectBattingPlayers
    \/ SelectBowlers
    \/ SlideOverRange

Spec == Init /\ [][Next]_vars

\* load_data on files of every shape.
InitLoad == InitWith(LoadTables)

NextLoad == Run \/ Refresh

SpecLoad == InitLoad /\ [][NextLoad]_vars

\* Sessions over tables with more batting players and bowlers than the
\* top-ten tables hold.
InitTop == InitWith(TopTables)

NextTop == Run \/ Refresh \/ SelectInnings

SpecTop == InitTop /\ [][NextTop]_vars

(***************************************************************************)
(* filter_data called on its own, on a loaded frame, and again on its own  *)
(* result                                                                  *)
(***************************************************************************)

InningsChoices(frame) == {{}, {<<1>>}, {<<2>>, NA}, innings_options(frame)}

PlayerChoices == {{}, {<<"Root">>}, {<<"Root">>, <<"Pant">>}, {NA}}

BowlerChoices == {{}, {<<"Bumrah">>}}

\* Ranges with lo < hi, lo = hi and lo > hi.
RangeChoices == {<<1, 2>>, <<1, 1>>, <<2, 2>>, <<2, 1>>}

ArgChoices(frame) ==
    [innings         : InningsChoices(frame),
     batting_players : PlayerChoices,
     bowlers         : BowlerChoices,
     over_range      : RangeChoices]

\* The whole over range of a frame, as main's slider starts.
FullRange(frame) == <<min_over_num(frame), max_over_num(frame)>>

\* A configuration whose only criterion is the batting players P.
OnlyPlayers(frame, P) ==
    [innings |-> innings_options(frame), batting_players |-> P,
     bowlers |-> {}, over_range |-> FullRange(frame)]

\* A configuration whose only criterion is the over range R.
OnlyOverRange(frame, R) ==
    [innings |-> innings_options(frame), batting_players |-> {},
     bowlers |-> {}, over_range |-> R]

OnePlayerCriterion(frame) ==
    IF HasOverExtent(frame)
    THEN {OnlyPlayers(frame, P) : P \in PlayerChoices \ {{}}}
    ELSE {}

OneRangeCriterion(frame) ==
    IF HasOverExtent(frame)
    THEN {OnlyOverRange(frame, R) : R \in RangeChoices}
    ELSE {}

\* filter_data(df, ...)
CallFilterData ==
    /\ status = "loaded"
    /\ \E a \in ArgChoices(df) :
          /\ calls' = <<a>>
          /\ filtered_df' = Filter(df, a)
    /\ status' = "filtered"
    /\ UNCHANGED <<csv, cache, df, widgets, metrics, runs_per_over,
                   top_runs, top_wickets>>

\* filter_data(filtered, ...): a second criterion applied to the result of
\* a call that applied one.
FilterAgain ==
    /\ status = "filtered"
    /\ Len(calls) = 1
    /\ calls[1] \in OnePlayerCriterion(df) \cup OneRangeCriterion(df)
    /\ \E a \in OnePlayerCriterion(df) \cup OneRangeCriterion(df) :
          /\ calls' = Append(calls, a)
          /\ filtered_df' = Filter(filtered_df, a)
    /\ UNCHANGED <<csv, cache, df, widgets, metrics, runs_per_over,
                   top_runs, top_wickets, status>>

InitFilter ==
    /\ csv \in SessionTables
    /\ cache = <<load_data(csv).df>>
    /\ df = load_data(csv).df
    /\ widgets = NoWidgets
    /\ calls = <<>>
    /\ filtered_df = <<>>
    /\ metrics = NoMetrics
    /\ runs_per_over = <<>>
    /\ top_runs = <<>>
    /\ top_wickets = <<>>
    /\ status = "loaded"

NextFilter == CallFilterData \/ FilterAgain

SpecFilter == InitFilter /\ [][NextFilter]_vars

(***************************************************************************)
(* The claims                                                              *)
(***************************************************************************)

RECURSIVE IsSubSeq(_, _)
\* s is t with some rows left out: same rows, same order, none added.
IsSubSeq(s, t) ==
    IF s = <<>> THEN TRUE
    ELSE IF t = <<>> THEN FALSE
    ELSE IF s[1] = t[1] THEN IsSubSeq(Tail(s), Tail(t))
    ELSE IsSubSeq(s, Tail(t))

RECURSIVE TotalOf(_, _, _, _)
\* The total of column val over the rows of a frame whose column col holds
\* the cell c.
TotalOf(frame, col, c, val) ==
    IF frame = <<>> THEN 0
    ELSE TotalOf(Tail(frame), col, c, val) +
         (IF Head(frame)[col] = c THEN Head(frame)[val] ELSE 0)

\* The column of the file that load_data reads the runs from.
RunsTextOf(i) ==
    IF csv.hasRunsScored THEN csv.rows[i].runsScored ELSE csv.rows[i].runs

\* What each runs text of the load family is as a number, 0 when it is none.
ExpectedRuns(t) ==
    CASE t = <<"0">> -> 0
      [] t = <<"1">> -> 1
      [] t = <<"4">> -> 4
      [] t = <<"6">> -> 6
      [] t = <<"1", "0">> -> 10
      [] t = <<"-", "1">> -> 0 - 1
      [] OTHER -> 0

\* C1: after load_data, the wicket flag of every record is 0 when its
\* dismissal code is missing or one of NotOut, NotOut1stUmpire,
\* NotOut2ndUmpire, NotOut3rdUmpire, Null, and 1 for every other code.
C1_WicketFlag ==
    cache # <<>> =>
        /\ Len(df) = Len(csv.rows)
        /\ \A i \in 1..Len(df) :
              LET code == csv.rows[i].appealDismissalTypeId
              IN  df[i].is_wicket =
                    IF \/ code = NA
                       \/ code = <<"NotOut">>
                       \/ code = <<"NotOut1stUmpire">>
                       \/ code = <<"NotOut2ndUmpire">>
                       \/ code = <<"NotOut3rdUmpire">>
                       \/ code = <<"Null">>
                    THEN 0 ELSE 1

\* A loaded table with a 'Null' code flagged 0 and an unknown code flagged 1.
C1_Witness ==
    /\ cache # <<>>
    /\ \E i, j \in 1..Len(df) :
          /\ df[i].appealDismissalTypeId = <<"Null">> /\ df[i].is_wicket = 0
          /\ df[j].appealDismissalTypeId = <<"Zzz">> /\ df[j].is_wicket = 1

\* Whether a row satisfies every present criterion of a configuration.
Satisfies(r, a) ==
    /\ r.inningNumber \in a.innings
    /\ a.batting_players # {} => r.battingPlayer \in a.batting_players
    /\ a.bowlers # {} => r.bowlerPlayer \in a.bowlers
    /\ r.overNumber # NA
    /\ a.over_range[1] <= r.overNumber[1]
    /\ r.overNumber[1] <= a.over_range[2]

\* C2: filter_data returns exactly the records that satisfy every present
\* criterion, in their order: none that satisfies all is left out, none
\* that fails one is included.
C2_ExactlyTheMatching ==
    (status = "filtered" /\ Len(calls) = 1) =>
        LET Sat(r) == Satisfies(r, calls[1])
        IN  filtered_df = SelectSeq(df, Sat)

\* A call with players and bowlers selected that keeps a row and drops one.
C2_Witness ==
    /\ status = "filtered" /\ Len(calls) = 1
    /\ calls[1].batting_players # {} /\ calls[1].bowlers # {}
    /\ Len(df) = 2 /\ Len(filtered_df) = 1
    /\ \E i \in 1..Len(df) :
          /\ df[i].inningNumber \in calls[1].innings
          /\ df[i].battingPlayer \in calls[1].batting_players
          /\ in_over_range(df[i].overNumber, calls[1].over_range)
          /\ df[i].bowlerPlayer \notin calls[1].bowlers

\* C3: with no innings, no batting player and no bowler selected and the
\* over range at its full extent, the filtered record set is the whole
\* loaded record set.
C3_EmptyCriteriaIdentity ==
    (/\ status = "ok"
     /\ widgets.innings = {}
     /\ widgets.batting_players = {}
     /\ widgets.bowlers = {}
     /\ widgets.over_range = FullRange(df)) => filtered_df = df

\* C4: the over range is inclusive on both ends, and a range with lo > hi
\* gives the empty record set.
C4_InclusiveRange ==
    (status = "filtered" /\ Len(calls) = 1) =>
        LET a  == calls[1]
            lo == a.over_range[1]
            hi == a.over_range[2]
        IN  /\ \A i \in 1..Len(df) :
                  (/\ df[i].overNumber \in {<<lo>>, <<hi>>}
                   /\ lo <= hi
                   /\ df[i].inningNumber \in a.innings
                   /\ a.batting_players # {} =>
                         df[i].battingPlayer \in a.batting_players
                   /\ a.bowlers # {} => df[i].bowlerPlayer \in a.bowlers)
                  => df[i] \in Range(filtered_df)
            /\ lo > hi => filtered_df = <<>>

\* A call with lo < hi that keeps a record of over hi.
C4_Witness ==
    /\ status = "filtered" /\ Len(calls) = 1
    /\ calls[1].over_range[1] < calls[1].over_range[2]
    /\ \E i \in 1..Len(filtered_df) :
          filtered_df[i].overNumber = <<calls[1].over_range[2]>>

\* C5: the batting-player criterion P and then the over-range criterion R,
\* R and then P, and P and R in one call give the same record set.
C5_Commutes ==
    (status = "filtered" /\ Len(calls) = 2) =>
        \A P \in PlayerChoices \ {{}}, R \in RangeChoices :
            LET p == OnlyPlayers(df, P)
                r == OnlyOverRange(df, R)
                both == [p EXCEPT !.over_range = R]
            IN  (calls = <<p, r>> \/ calls = <<r, p>>) =>
                    /\ filtered_df = Filter(Filter(df, calls[2]), calls[1])
                    /\ filtered_df = Filter(df, both)

\* Players first and then a range, where each criterion drops a record the
\* other keeps.
C5_Witness ==
    /\ status = "filtered" /\ Len(calls) = 2
    /\ calls[1] \in OnePlayerCriterion(df)
    /\ calls[2] \in OneRangeCriterion(df)
    /\ Len(filtered_df) < Len(Filter(df, calls[1]))
    /\ Len(filtered_df) < Len(Filter(df, calls[2]))

\* C6: once loaded, the record set stays what load_data returned from the
\* file, main works on that record set, and every filtered view is made of
\* its records only: none created, none altered, none out of order.
C6_LoadedSetNeverChanged ==
    cache # <<>> =>
        /\ cache[1] = load_data(csv).df
        /\ df = cache[1]
        /\ IsSubSeq(filtered_df, df)

\* A session with a selection made after the first run, whose view holds
\* some but not all of the loaded records.
C6_Witness ==
    /\ status = "ok"
    /\ widgets # DefaultWidgets(df)
    /\ filtered_df # <<>>
    /\ Len(filtered_df) < Len(df)

\* The keys of a grouping of the filtered set, the missing key among them.
KeysOf(frame, col) == {frame[i][col] : i \in 1..Len(frame)}

RECURSIVE SumTotals(_)
\* The sum of the totals of a set of <<key, total>> groups.
SumTotals(groups) ==
    IF groups = {} THEN 0
    ELSE LET g == CHOOSE x \in groups : TRUE
         IN  g[2] + SumTotals(groups \ {g})

\* C7: in each grouped aggregation the records with a missing grouping
\* field form a group of their own, so the group totals before the top-10
\* cut add up to the total over the filtered set.
C7_NullsFormOwnGroup ==
    status = "ok" =>
        /\ KeysOf(filtered_df, "overNumber") =
             {g[1] : g \in groupby_sum(filtered_df, "overNumber", "runsScored")}
        /\ SumTotals(groupby_sum(filtered_df, "overNumber", "runsScored"))
             = metrics.total_runs
        /\ KeysOf(filtered_df, "battingPlayer") =
             {g[1] : g \in groupby_sum(filtered_df, "battingPlayer", "runsScored")}
        /\ SumTotals(groupby_sum(filtered_df, "battingPlayer", "runsScored"))
             = metrics.total_runs
        /\ KeysOf(filtered_df, "bowlerPlayer") =
             {g[1] : g \in groupby_sum(filtered_df, "bowlerPlayer", "is_wicket")}
        /\ SumTotals(groupby_sum(filtered_df, "bowlerPlayer", "is_wicket"))
             = metrics.total_wickets

\* C8: on every table with records load_data does not fail, and gives every
\* record the number its runs text spells, 0 when the text is no number or
\* is missing.
C8_RunsCoerced ==
    (status # "start" /\ csv.rows # <<>>) =>
        /\ cache # <<>>
        /\ Len(df) = Len(csv.rows)
        /\ \A i \in 1..Len(df) :
              /\ df[i].runsScored \in Int
              /\ df[i].runsScored = ExpectedRuns(RunsTextOf(i))

\* C8 on the tables that have a runsScored or a runs column: what load_data
\* does when line 45 does not raise.
C8_RunsCoercedWithAColumn ==
    (status # "start" /\ (csv.hasRunsScored \/ csv.hasRuns)) =>
        /\ cache # <<>>
        /\ Len(df) = Len(csv.rows)
        /\ \A i \in 1..Len(df) :
              /\ df[i].runsScored \in Int
              /\ df[i].runsScored = ExpectedRuns(RunsTextOf(i))

\* A loaded file with a row whose runs text is no number, followed by a row
\* whose runs text is one.
C8_WitnessWithAColumn ==
    /\ cache # <<>> /\ Len(df) = 2
    /\ RunsTextOf(1) = <<"4", "x">> /\ df[1].runsScored = 0
    /\ RunsTextOf(2) = <<"1", "0">> /\ df[2].runsScored = 10

\* C9: when no record satisfies the selected criteria the filtered set is
\* empty, the four metrics are 0 and each grouped table has no groups.
C9_EmptyResult ==
    (/\ status = "ok"
     /\ \A i \in 1..Len(df) : ~Satisfies(df[i], calls[1])) =>
        /\ filtered_df = <<>>
        /\ metrics = [total_runs |-> 0, total_wickets |-> 0,
                      boundaries |-> 0, sixes |-> 0]
        /\ runs_per_over = <<>>
        /\ top_runs = <<>>
        /\ top_wickets = <<>>

\* A selection that every record of a loaded table of two records fails,
\* each record lying in the selected over range.
C9_Witness ==
    /\ status = "ok"
    /\ Len(df) = 2
    /\ \A i \in 1..Len(df) :
          /\ ~Satisfies(df[i], calls[1])
          /\ in_over_range(df[i].overNumber, calls[1].over_range)
    /\ filtered_df = <<>>

\* Whether a top table of at most 10 groups lists, in descending order of
\* total, groups of the filtered set with the sum of val over each group's
\* records, and leaves out no group with a larger total than one it holds.
IsTopTable(table, col, val) ==
    /\ Len(table) <= 10
    /\ \A i, j \in 1..Len(table) : i < j =>
          /\ table[i][2] >= table[j][2]
          /\ table[i][1] # table[j][1]
    /\ \A i \in 1..Len(table) :
          /\ table[i][1] \in KeysOf(filtered_df, col) \ {NA}
          /\ table[i][2] = TotalOf(filtered_df, col, table[i][1], val)
    /\ \A k \in KeysOf(filtered_df, col) \ {NA} :
          (\A i \in 1..Len(table) : table[i][1] # k) =>
              \A i \in 1..Len(table) :
                  TotalOf(filtered_df, col, k, val) <= table[i][2]

\* C10: the top run scorers table and the top wicket takers table hold at
\* most 10 groups in descending order of their total, each total the sum
\* over the group's records in the filtered set, and no group left out has
\* a strictly larger total than a group in the table.
C10_TopTen ==
    status = "ok" =>
        /\ IsTopTable(top_runs, "battingPlayer", "runsScored")
        /\ IsTopTable(top_wickets, "bowlerPlayer", "is_wicket")

\* More than 10 batting players and more than 10 bowlers in the filtered
\* set, both tables full, and the last run scorer listed level with the
\* one left out.
C10_Witness ==
    /\ status = "ok"
    /\ Cardinality(KeysOf(filtered_df, "battingPlayer") \ {NA}) > 10
    /\ Cardinality(KeysOf(filtered_df, "bowlerPlayer") \ {NA}) > 10
    /\ Len(top_runs) = 10 /\ Len(top_wickets) = 10
    /\ \E k \in KeysOf(filtered_df, "battingPlayer") \ {NA} :
          /\ \A i \in 1..10 : top_runs[i][1] # k
          /\ TotalOf(filtered_df, "battingPlayer", k, "runsScored") = top_runs[10][2]

====
